---- MODULE Spec2Model ----
(***************************************************************************)
(* engine_forkchoiceUpdatedV3: ForkChoiceUpdatedV3::parse and ::handle of   *)
(* crates/networking/rpc/engine/fork_choice.rs, with the store, the        *)
(* fork-choice engine, the payload builder and the syncer it calls.        *)
(*                                                                         *)
(* An Option<T> is a sequence of length at most one: <<>> is None and      *)
(* <<x>> is Some(x).  The zero hash H256::zero() is 0.                      *)
(***************************************************************************)
EXTENDS Integers, Sequences, FiniteSets, TLC

\* Number of requests received in a run, and the largest attribute timestamp.
MaxReqs == 2
MaxTs == 3

\* Two RPC workers run handle concurrently; every request has its own
\* (possibly never spawned) detached task, numbered like the request.
Slots == {1, 2}
Serials == 1 .. MaxReqs

None == <<>>
Some(x) == <<x>>
IsSome(o) == Len(o) = 1
Unwrap(o) == o[1]

----------------------------------------------------------------------------
\* The block headers that exist in the network.  Hash 1 is genesis, 2 and 4
\* are siblings at height 1, 3 extends 2, and 5 extends 3.
BlockTable ==
  << [number |-> 0, parent_hash |-> 0, timestamp |-> 0],
     [number |-> 1, parent_hash |-> 1, timestamp |-> 2],
     [number |-> 2, parent_hash |-> 2, timestamp |-> 3],
     [number |-> 1, parent_hash |-> 1, timestamp |-> 1],
     [number |-> 3, parent_hash |-> 3, timestamp |-> 4] >>

Hashes == DOMAIN BlockTable
Header(h) == BlockTable[h]
Numbers == {BlockTable[h].number : h \in Hashes}

\* The chain configuration of the store: Cancun is active from this time on.
ChainConfig == [cancun_time |-> 2]

VARIABLES
  headers,      \* store: hashes of the block headers held
  canonical,    \* store: block number -> Option<canonical hash>
  latest,       \* store: Option<latest block number>
  safe,         \* store: Option<safe block number>
  finalized,    \* store: Option<finalized block number>
  payloads,     \* store: payload id -> payload, as a set of pairs
  syncer,       \* Option<serial of the task holding the syncer mutex>
  tasks,        \* serial -> the detached task spawned by that request
  reqs,         \* slot -> the request that worker is handling
  received,     \* number of requests received so far
  lastCommit    \* Option<serial of the last request whose fork choice was applied>

vars == << headers, canonical, latest, safe, finalized, payloads, syncer,
           tasks, reqs, received, lastCommit >>

store == << headers, canonical, latest, safe, finalized, payloads >>
----------------------------------------------------------------------------
\* Result<T, E>.
Ok(v) == [ok |-> TRUE, value |-> Some(v), err |-> None]
Err(e) == [ok |-> FALSE, value |-> None, err |-> Some(e)]

\* RpcErr variants with their message.
RpcErr(kind, msg) == [kind |-> kind, msg |-> msg]

\* serde_json::Value, as far as the two decoders tell values apart: a
\* fork-choice-state object, null, a payload-attributes object, anything else.
StateValue(head, safe_h, fin_h) ==
  [kind |-> "state", head |-> head, safe |-> safe_h, finalized |-> fin_h, timestamp |-> 0]
NullValue == [kind |-> "null", head |-> 0, safe |-> 0, finalized |-> 0, timestamp |-> 0]
AttributesValue(ts) ==
  [kind |-> "attributes", head |-> 0, safe |-> 0, finalized |-> 0, timestamp |-> ts]
JunkValue == [kind |-> "junk", head |-> 0, safe |-> 0, finalized |-> 0, timestamp |-> 0]

\* serde_json::from_value::<ForkChoiceState>
DecodeForkChoiceState(v) ==
  IF v.kind = "state"
    THEN Ok([head_block_hash |-> v.head,
             safe_block_hash |-> v.safe,
             finalized_block_hash |-> v.finalized])
    ELSE Err("invalid type: expected struct ForkChoiceState")

\* serde_json::from_value::<Option<PayloadAttributesV3>>
DecodePayloadAttributes(v) ==
  CASE v.kind = "null" -> Ok(None)
    [] v.kind = "attributes" -> Ok(Some([timestamp |-> v.timestamp]))
    [] OTHER -> Err("invalid type: expected struct PayloadAttributesV3")

\* Faulty variant: a decode error of the payload attributes aborts parse.
parse_AttributesAbort(params) ==
  IF ~IsSome(params)
    THEN Err(RpcErr("BadParams", "No params provided"))
  ELSE IF Len(Unwrap(params)) # 2
    THEN Err(RpcErr("BadParams", "Expected 2 params"))
  ELSE LET p == Unwrap(params)
           fcs == DecodeForkChoiceState(p[1])
           attrs == DecodePayloadAttributes(p[2])
       IN IF ~fcs.ok
            THEN Err(RpcErr("BadParams", Unwrap(fcs.err)))
          ELSE IF ~attrs.ok
            THEN Err(RpcErr("BadParams", Unwrap(attrs.err)))
          ELSE Ok([fork_choice_state |-> Unwrap(fcs.value),
                   payload_attributes |-> attrs])

\* ForkChoiceUpdatedV3::parse.  params is Option<Vec<Value>>.
parse(params) ==
  IF ~IsSome(params)
    THEN Err(RpcErr("BadParams", "No params provided"))
  ELSE IF Len(Unwrap(params)) # 2
    THEN Err(RpcErr("BadParams", "Expected 2 params"))
  ELSE LET p == Unwrap(params)
           fcs == DecodeForkChoiceState(p[1])
           attrs == DecodePayloadAttributes(p[2])
       IN IF ~fcs.ok
            THEN Err(RpcErr("BadParams", Unwrap(fcs.err)))
            ELSE Ok([fork_choice_state |-> Unwrap(fcs.value),
                     payload_attributes |->
                       IF attrs.ok THEN attrs ELSE Err(Unwrap(attrs.err))])

----------------------------------------------------------------------------
\* PayloadStatus and ForkChoiceResponse (crate::types).
valid_with_hash(h) ==
  [status |-> "Valid", latest_valid_hash |-> Some(h), validation_error |-> None]
syncing_status ==
  [status |-> "Syncing", latest_valid_hash |-> None, validation_error |-> None]
ForkChoiceResponseFrom(status) == [payload_status |-> status, payload_id |-> None]
set_id(response, id) == [response EXCEPT !.payload_id = Some(id)]

\* serde_json::to_value(ForkChoiceResponse): camelCase keys, upper-case status.
StatusName(s) ==
  CASE s = "Valid" -> "VALID"
    [] s = "Syncing" -> "SYNCING"
    [] s = "Invalid" -> "INVALID"
to_value(response) ==
  Ok([payloadStatus |->
        [status |-> StatusName(response.payload_status.status),
         latestValidHash |-> response.payload_status.latest_valid_hash,
         validationError |-> response.payload_status.validation_error],
      payloadId |-> response.payload_id])

\* What handle ends with: Ok(Value), Err(RpcErr), or a panic of the worker.
Returned(r) == [kind |-> IF r.ok THEN "Ok" ELSE "Err", value |-> r.value, err |-> r.err]
Panicked == [kind |-> "Panic", value |-> None, err |-> None]
NotReturned == [kind |-> "Running", value |-> None, err |-> None]
----------------------------------------------------------------------------
\* Store queries (ethrex_storage::Store) used by handle.
get_latest_block_number == Ok(latest)
get_canonical_block_hash(n) == Ok(canonical[n])
get_chain_config ==
  IF headers = {} THEN Err("Chain config not found") ELSE Ok(ChainConfig)
is_cancun_activated(config, ts) == config.cancun_time <= ts

\* ethrex_blockchain::latest_canonical_block_hash
latest_canonical_block_hash ==
  IF IsSome(latest) /\ IsSome(canonical[Unwrap(latest)])
    THEN Ok(Unwrap(canonical[Unwrap(latest)]))
    ELSE Err("Could not find latest valid hash")

\* ethrex_blockchain::fork_choice: the ancestor of block h at height n.
RECURSIVE AncestorAt(_, _)
AncestorAt(h, n) ==
  IF Header(h).number = n THEN h ELSE AncestorAt(Header(h).parent_hash, n)

IsAncestorOrSelf(a, h) ==
  Header(a).number <= Header(h).number /\ AncestorAt(h, Header(a).number) = a

is_canonical(h) == canonical[Header(h).number] = Some(h)

\* find_link_with_canonical_chain: some stored ancestor of h is canonical.
RECURSIVE Linked(_)
Linked(h) ==
  IF h = 0 \/ h \notin headers THEN FALSE
  ELSE IF is_canonical(h) THEN TRUE
  ELSE Linked(Header(h).parent_hash)

\* A zero or unknown safe/finalized hash names no block and is not checked.
Named(h) == h # 0 /\ h \in headers

\* apply_fork_choice's classification of a fork-choice state against the
\* store: Ok(head header) or Err(InvalidForkChoice variant).
ForkChoiceOutcome(fcs) ==
  LET head == fcs.head_block_hash
      safe_h == fcs.safe_block_hash
      fin_h == fcs.finalized_block_hash
  IN CASE head = 0 -> Err("InvalidHeadHash")
       [] head # 0 /\ head \notin headers -> Err("Syncing")
       [] OTHER ->
          IF \/ Named(safe_h) /\ Header(safe_h).number > Header(head).number
             \/ Named(fin_h) /\ Named(safe_h)
                  /\ Header(fin_h).number > Header(safe_h).number
            THEN Err("Unordered")
          ELSE IF is_canonical(head) /\ IsSome(latest)
                    /\ Header(head).number <= Unwrap(latest)
            THEN Err("NewHeadAlreadyCanonical")
          ELSE IF ~Linked(Header(head).parent_hash)
            THEN Err("Disconnected")
          ELSE IF \/ Named(safe_h) /\ ~IsAncestorOrSelf(safe_h, head)
                  \/ Named(fin_h) /\ ~IsAncestorOrSelf(fin_h, head)
            THEN Err("Disconnected")
          ELSE Ok(Header(head))

\* InvalidForkChoice's Display.
ReasonString(reason) ==
  CASE reason = "InvalidHeadHash" -> "Head hash value is invalid"
    [] reason = "Unordered" -> "Head, safe and finalized blocks are not in the correct order"
    [] reason = "Disconnected" -> "Head, safe and finalized blocks are not connected"
    [] OTHER -> reason

\* The store after apply_fork_choice has applied fcs: the head's chain is
\* canonical up to the head, the head is the latest block, and the named safe
\* and finalized blocks are recorded.
CommittedCanonical(fcs) ==
  [n \in Numbers |->
     IF n <= Header(fcs.head_block_hash).number
       THEN Some(AncestorAt(fcs.head_block_hash, n))
       ELSE None]
CommittedLatest(fcs) == Some(Header(fcs.head_block_hash).number)
CommittedSafe(fcs) ==
  IF Named(fcs.safe_block_hash)
    THEN Some(Header(fcs.safe_block_hash).number) ELSE safe
CommittedFinalized(fcs) ==
  IF Named(fcs.finalized_block_hash)
    THEN Some(Header(fcs.finalized_block_hash).number) ELSE finalized

\* BuildPayloadArgs of handle and BuildPayloadArgs::id: the id is a hash of
\* the arguments, modelled as the arguments themselves (no collisions).
BuildPayloadArgs(fcs, attributes) ==
  [parent |-> fcs.head_block_hash, timestamp |-> attributes.timestamp, version |-> 3]
PayloadId(args) == << args.parent, args.timestamp, args.version >>

\* create_payload's block on success.
BuiltPayload(args) == [parent_hash |-> args.parent, timestamp |-> args.timestamp]
----------------------------------------------------------------------------
\* The requests a consensus client may send.
StateValues ==
  { StateValue(h, 0, 0) : h \in {0} \cup Hashes }
    \cup { StateValue(h, 2, 1) : h \in {1, 3, 4} }
    \cup { StateValue(2, 2, 2) }
AttributeValues == {NullValue, JunkValue} \cup {AttributesValue(ts) : ts \in 1 .. MaxTs}
ParamsChoices ==
  {None, Some(<< >>), Some(<< StateValue(2, 0, 0) >>),
   Some(<< StateValue(2, 0, 0), NullValue, NullValue >>),
   Some(<< JunkValue, NullValue >>), Some(<< NullValue, JunkValue >>)}
    \cup { Some(<< sv, av >>) : sv \in StateValues, av \in AttributeValues }

\* A worker with no request, and a task that was never spawned.
IdleReq ==
  [pc |-> "idle", serial |-> 0, params |-> None,
   fork_choice_state |->
     [head_block_hash |-> 0, safe_block_hash |-> 0, finalized_block_hash |-> 0],
   payload_attributes |-> Ok(None),
   outcome |-> "", head_block |-> None, response |-> None, args |-> None,
   payload |-> None, created |-> None, calls |-> << >>, reads |-> << >>,
   ret |-> NotReturned]
NoTask == [state |-> "none", current_head |-> 0, sync_head |-> 0, head_at_start |-> None]

\* The stores a node may start with: a chain with genesis and block 2
\* canonical (3 and 4 stored as side blocks), a store with no chain at all,
\* and a store whose canonical index lost the hash of its latest block.
InitialStores ==
  { [headers |-> {1, 2, 3, 4},
     canonical |-> [n \in Numbers |-> IF n = 0 THEN Some(1) ELSE IF n = 1 THEN Some(2) ELSE None],
     latest |-> Some(1)],
    [headers |-> {},
     canonical |-> [n \in Numbers |-> None],
     latest |-> None],
    [headers |-> {1, 2, 3, 4},
     canonical |-> [n \in Numbers |-> None],
     latest |-> Some(0)] }

Init ==
  /\ \E st \in InitialStores :
       /\ headers = st.headers
       /\ canonical = st.canonical
       /\ latest = st.latest
  /\ safe = None
  /\ finalized = None
  /\ payloads = {}
  /\ syncer = None
  /\ tasks = [t \in Serials |-> NoTask]
  /\ reqs = [s \in Slots |-> IdleReq]
  /\ received = 0
  /\ lastCommit = None

\* handle returns r (or panics): the request is over.
Finish(req, r) == [req EXCEPT !.pc = "done", !.ret = r]
Called(req, name) == [req EXCEPT !.calls = Append(@, name)]
Read(req, names) == [req EXCEPT !.reads = @ \o names]

\* The RPC dispatcher receives a request on worker s and runs parse; a
\* parse error is the request's result, otherwise handle starts.
Receive(s) ==
  /\ reqs[s].pc = "idle"
  /\ received < MaxReqs
  /\ received' = received + 1
  /\ \E params \in ParamsChoices :
       LET parsed == parse(params)
           req == [IdleReq EXCEPT !.serial = received + 1, !.params = params]
       IN reqs' = [reqs EXCEPT ![s] =
            IF parsed.ok
              THEN [req EXCEPT
                      !.pc = "handle",
                      !.fork_choice_state = Unwrap(parsed.value).fork_choice_state,
                      !.payload_attributes = Unwrap(parsed.value).payload_attributes]
              ELSE Finish(req, Returned(parsed))]
  /\ UNCHANGED << store, syncer, tasks, lastCommit >>

\* Faulty variant: an invalid fork-choice state is answered with an INVALID payload
\* status instead of the InvalidForkChoiceState error.
ApplyForkChoice_InvalidAsStatus(s) ==
  LET req == Called(reqs[s], "apply_fork_choice")
      fcs == req.fork_choice_state
      out == ForkChoiceOutcome(fcs)
  IN /\ reqs[s].pc = "handle"
     /\ IF out.ok
          THEN /\ canonical' = CommittedCanonical(fcs)
               /\ latest' = CommittedLatest(fcs)
               /\ safe' = CommittedSafe(fcs)
               /\ finalized' = CommittedFinalized(fcs)
               /\ lastCommit' = Some(req.serial)
               /\ reqs' = [reqs EXCEPT ![s] =
                    [req EXCEPT !.pc = "payload", !.outcome = "Applied",
                                !.head_block = out.value]]
          ELSE /\ UNCHANGED << canonical, latest, safe, finalized, lastCommit >>
               /\ reqs' = [reqs EXCEPT ![s] =
                    CASE Unwrap(out.err) = "NewHeadAlreadyCanonical" ->
                           [req EXCEPT !.pc = "already_canonical",
                                       !.outcome = "AlreadyCanonical"]
                      [] Unwrap(out.err) = "Syncing" ->
                           [req EXCEPT !.pc = "syncing", !.outcome = "Syncing"]
                      [] OTHER ->
                           Finish([req EXCEPT !.outcome = "Invalid"],
                                  Returned(to_value(ForkChoiceResponseFrom(
                                    [status |-> "Invalid", latest_valid_hash |-> None,
                                     validation_error |->
                                       Some(ReasonString(Unwrap(out.err)))]))))]
     /\ UNCHANGED << headers, payloads, syncer, tasks, received >>

\* Faulty variant: NewHeadAlreadyCanonical is not told apart from success, so the
\* handler goes on to the payload attributes.
ApplyForkChoice_CanonicalAsApplied(s) ==
  LET req == Called(reqs[s], "apply_fork_choice")
      fcs == req.fork_choice_state
      out == ForkChoiceOutcome(fcs)
  IN /\ reqs[s].pc = "handle"
     /\ IF out.ok
          THEN /\ canonical' = CommittedCanonical(fcs)
               /\ latest' = CommittedLatest(fcs)
               /\ safe' = CommittedSafe(fcs)
               /\ finalized' = CommittedFinalized(fcs)
               /\ lastCommit' = Some(req.serial)
               /\ reqs' = [reqs EXCEPT ![s] =
                    [req EXCEPT !.pc = "payload", !.outcome = "Applied",
                                !.head_block = out.value]]
          ELSE /\ UNCHANGED << canonical, latest, safe, finalized, lastCommit >>
               /\ reqs' = [reqs EXCEPT ![s] =
                    CASE Unwrap(out.err) = "NewHeadAlreadyCanonical" ->
                           [req EXCEPT !.pc = "payload",
                                       !.outcome = "AlreadyCanonical",
                                       !.head_block = Some(Header(fcs.head_block_hash))]
                      [] Unwrap(out.err) = "Syncing" ->
                           [req EXCEPT !.pc = "syncing", !.outcome = "Syncing"]
                      [] OTHER ->
                           Finish([req EXCEPT !.outcome = "Invalid"],
                                  Returned(Err(RpcErr("InvalidForkChoiceState",
                                                      ReasonString(Unwrap(out.err))))))]
     /\ UNCHANGED << headers, payloads, syncer, tasks, received >>

\* Faulty variant: the payload attributes are validated before the fork choice is
\* applied, so a request with bad attributes changes nothing.
ApplyForkChoice_ValidatesAttributesFirst(s) ==
  LET req == Called(reqs[s], "apply_fork_choice")
      fcs == req.fork_choice_state
      out == ForkChoiceOutcome(fcs)
      attrs == req.payload_attributes
      bad_timestamp ==
        /\ out.ok /\ attrs.ok /\ IsSome(Unwrap(attrs.value))
        /\ Unwrap(Unwrap(attrs.value)).timestamp <= Unwrap(out.value).timestamp
  IN /\ reqs[s].pc = "handle"
     /\ IF out.ok /\ ~attrs.ok
          THEN /\ UNCHANGED << canonical, latest, safe, finalized, lastCommit >>
               /\ reqs' = [reqs EXCEPT ![s] =
                    Finish([req EXCEPT !.outcome = "Applied", !.head_block = out.value],
                           Returned(Err(RpcErr("InvalidPayloadAttributes",
                                               Unwrap(attrs.err)))))]
        ELSE IF bad_timestamp
          THEN /\ UNCHANGED << canonical, latest, safe, finalized, lastCommit >>
               /\ reqs' = [reqs EXCEPT ![s] =
                    [req EXCEPT !.pc = "payload", !.outcome = "Applied",
                                !.head_block = out.value]]
        ELSE IF out.ok
          THEN /\ canonical' = CommittedCanonical(fcs)
               /\ latest' = CommittedLatest(fcs)
               /\ safe' = CommittedSafe(fcs)
               /\ finalized' = CommittedFinalized(fcs)
               /\ lastCommit' = Some(req.serial)
               /\ reqs' = [reqs EXCEPT ![s] =
                    [req EXCEPT !.pc = "payload", !.outcome = "Applied",
                                !.head_block = out.value]]
          ELSE /\ UNCHANGED << canonical, latest, safe, finalized, lastCommit >>
               /\ reqs' = [reqs EXCEPT ![s] =
                    CASE Unwrap(out.err) = "NewHeadAlreadyCanonical" ->
                           [req EXCEPT !.pc = "already_canonical",
                                       !.outcome = "AlreadyCanonical"]
                      [] Unwrap(out.err) = "Syncing" ->
                           [req EXCEPT !.pc = "syncing", !.outcome = "Syncing"]
                      [] OTHER ->
                           Finish([req EXCEPT !.outcome = "Invalid"],
                                  Returned(Err(RpcErr("InvalidForkChoiceState",
                                                      ReasonString(Unwrap(out.err))))))]
     /\ UNCHANGED << headers, payloads, syncer, tasks, received >>

\* handle, lines 68-74 and 103-106: apply_fork_choice and the match on its
\* result.  An error other than NewHeadAlreadyCanonical and Syncing ends the
\* request at once.
ApplyForkChoice(s) ==
  LET req == Called(reqs[s], "apply_fork_choice")
      fcs == req.fork_choice_state
      out == ForkChoiceOutcome(fcs)
  IN /\ reqs[s].pc = "handle"
     /\ IF out.ok
          THEN /\ canonical' = CommittedCanonical(fcs)
               /\ latest' = CommittedLatest(fcs)
               /\ safe' = CommittedSafe(fcs)
               /\ finalized' = CommittedFinalized(fcs)
               /\ lastCommit' = Some(req.serial)
               /\ reqs' = [reqs EXCEPT ![s] =
                    [req EXCEPT !.pc = "payload", !.outcome = "Applied",
                                !.head_block = out.value]]
          ELSE /\ UNCHANGED << canonical, latest, safe, finalized, lastCommit >>
               /\ reqs' = [reqs EXCEPT ![s] =
                    CASE Unwrap(out.err) = "NewHeadAlreadyCanonical" ->
                           [req EXCEPT !.pc = "already_canonical",
                                       !.outcome = "AlreadyCanonical"]
                      [] Unwrap(out.err) = "Syncing" ->
                           [req EXCEPT !.pc = "syncing", !.outcome = "Syncing"]
                      [] OTHER ->
                           Finish([req EXCEPT !.outcome = "Invalid"],
                                  Returned(Err(RpcErr("InvalidForkChoiceState",
                                                      ReasonString(Unwrap(out.err))))))]
     /\ UNCHANGED << headers, payloads, syncer, tasks, received >>
\* Faulty variant: the VALID response carries the requested head instead of the
\* canonical head looked up in the store.
AlreadyCanonical_RequestedHead(s) ==
  LET req == reqs[s]
  IN /\ req.pc = "already_canonical"
     /\ reqs' = [reqs EXCEPT ![s] =
          Finish(req, Returned(to_value(ForkChoiceResponseFrom(
            valid_with_hash(req.fork_choice_state.head_block_hash)))))]
     /\ UNCHANGED << store, syncer, tasks, received, lastCommit >>

\* Faulty variant: the AlreadyCanonical arm surfaces a decode error of the
\* payload attributes instead of the VALID response.
AlreadyCanonical_SurfacesDecodeError(s) ==
  LET req == reqs[s]
      hash == latest_canonical_block_hash
  IN /\ req.pc = "already_canonical"
     /\ reqs' = [reqs EXCEPT ![s] =
          IF ~req.payload_attributes.ok
            THEN Finish(req, Returned(Err(RpcErr("InvalidPayloadAttributes",
                                                 Unwrap(req.payload_attributes.err)))))
          ELSE IF hash.ok
            THEN Finish(req, Returned(to_value(
                   ForkChoiceResponseFrom(valid_with_hash(Unwrap(hash.value))))))
            ELSE Finish(req, Panicked)]
     /\ UNCHANGED << store, syncer, tasks, received, lastCommit >>

\* handle, lines 77-81 and 108-109: the NewHeadAlreadyCanonical arm.  The
\* unwrap panics when the lookup fails.
AlreadyCanonical(s) ==
  LET req == reqs[s]
      hash == latest_canonical_block_hash
  IN /\ req.pc = "already_canonical"
     /\ reqs' = [reqs EXCEPT ![s] =
          IF hash.ok
            THEN Finish(req, Returned(to_value(
                   ForkChoiceResponseFrom(valid_with_hash(Unwrap(hash.value))))))
            ELSE Finish(req, Panicked)]
     /\ UNCHANGED << store, syncer, tasks, received, lastCommit >>

\* Faulty variant: the task is given the requested head as its starting point
\* and the canonical head as its target.
SpawnedTask_Swapped(current_head, sync_head) ==
  [state |-> "spawned", current_head |-> sync_head, sync_head |-> current_head,
   head_at_start |-> None]

SpawnedTask(current_head, sync_head) ==
  [state |-> "spawned", current_head |-> current_head, sync_head |-> sync_head,
   head_at_start |-> None]

\* Faulty variant: a missing canonical head is ignored; the sync is spawned from
\* the zero hash and SYNCING is returned.
Syncing_IgnoresMissingHead(s) ==
  LET req == reqs[s]
      current_head ==
        IF latest_canonical_block_hash.ok
          THEN Unwrap(latest_canonical_block_hash.value) ELSE 0
  IN /\ req.pc = "syncing"
     /\ tasks' = [tasks EXCEPT ![req.serial] =
          SpawnedTask(current_head, req.fork_choice_state.head_block_hash)]
     /\ reqs' = [reqs EXCEPT ![s] =
          Finish(req, Returned(to_value(ForkChoiceResponseFrom(syncing_status))))]
     /\ UNCHANGED << store, syncer, received, lastCommit >>

\* Faulty variant: the handler waits until the syncer is free before it reads
\* the head, spawns the task and returns.
Syncing_WaitsForSyncer(s) ==
  LET req == reqs[s]
      number == get_latest_block_number
      read1 == Read(req, << "get_latest_block_number" >>)
      read2 == Read(read1, << "get_canonical_block_hash" >>)
  IN /\ req.pc = "syncing"
     /\ syncer = None
     /\ IF ~number.ok
          THEN /\ reqs' = [reqs EXCEPT ![s] =
                    Finish(read1, Returned(Err(RpcErr("Internal", Unwrap(number.err)))))]
               /\ UNCHANGED tasks
        ELSE IF ~IsSome(Unwrap(number.value))
          THEN /\ reqs' = [reqs EXCEPT ![s] = Finish(read1, Panicked)]
               /\ UNCHANGED tasks
        ELSE LET hash == get_canonical_block_hash(Unwrap(Unwrap(number.value)))
             IN IF ~hash.ok
                  THEN /\ reqs' = [reqs EXCEPT ![s] =
                            Finish(read2, Returned(Err(RpcErr("Internal", Unwrap(hash.err)))))]
                       /\ UNCHANGED tasks
                ELSE IF ~IsSome(Unwrap(hash.value))
                  THEN /\ reqs' = [reqs EXCEPT ![s] =
                            Finish(read2, Returned(Err(RpcErr("Internal",
                                     "Missing latest canonical block"))))]
                       /\ UNCHANGED tasks
                ELSE /\ tasks' = [tasks EXCEPT ![req.serial] =
                          SpawnedTask(Unwrap(Unwrap(hash.value)),
                                      req.fork_choice_state.head_block_hash)]
                     /\ reqs' = [reqs EXCEPT ![s] =
                          Finish(read2, Returned(to_value(
                            ForkChoiceResponseFrom(syncing_status))))]
     /\ UNCHANGED << store, syncer, received, lastCommit >>

\* Faulty variant: the canonical head is read only when the syncer is free;
\* with the syncer held SYNCING is returned at once and nothing is spawned.
Syncing_ReadsOnlyWithLock(s) ==
  LET req == reqs[s]
      number == get_latest_block_number
      read1 == Read(req, << "get_latest_block_number" >>)
      read2 == Read(read1, << "get_canonical_block_hash" >>)
  IN /\ req.pc = "syncing"
     /\ IF syncer # None
          THEN /\ reqs' = [reqs EXCEPT ![s] =
                    Finish(req, Returned(to_value(
                      ForkChoiceResponseFrom(syncing_status))))]
               /\ UNCHANGED tasks
        ELSE IF ~number.ok
          THEN /\ reqs' = [reqs EXCEPT ![s] =
                    Finish(read1, Returned(Err(RpcErr("Internal", Unwrap(number.err)))))]
               /\ UNCHANGED tasks
        ELSE IF ~IsSome(Unwrap(number.value))
          THEN /\ reqs' = [reqs EXCEPT ![s] = Finish(read1, Panicked)]
               /\ UNCHANGED tasks
        ELSE LET hash == get_canonical_block_hash(Unwrap(Unwrap(number.value)))
             IN IF ~hash.ok
                  THEN /\ reqs' = [reqs EXCEPT ![s] =
                            Finish(read2, Returned(Err(RpcErr("Internal", Unwrap(hash.err)))))]
                       /\ UNCHANGED tasks
                ELSE IF ~IsSome(Unwrap(hash.value))
                  THEN /\ reqs' = [reqs EXCEPT ![s] =
                            Finish(read2, Returned(Err(RpcErr("Internal",
                                     "Missing latest canonical block"))))]
                       /\ UNCHANGED tasks
                ELSE /\ tasks' = [tasks EXCEPT ![req.serial] =
                          SpawnedTask(Unwrap(Unwrap(hash.value)),
                                      req.fork_choice_state.head_block_hash)]
                     /\ reqs' = [reqs EXCEPT ![s] =
                          Finish(read2, Returned(to_value(
                            ForkChoiceResponseFrom(syncing_status))))]
     /\ UNCHANGED << store, syncer, received, lastCommit >>

\* handle, lines 82-102 and 108-109: the Syncing arm.  The store is read
\* for the canonical head (a missing latest block number panics in unwrap, a
\* missing hash is an Internal error), then the task is spawned and the
\* SYNCING response returned without awaiting it.
Syncing(s) ==
  LET req == reqs[s]
      number == get_latest_block_number
      read1 == Read(req, << "get_latest_block_number" >>)
      read2 == Read(read1, << "get_canonical_block_hash" >>)
  IN /\ req.pc = "syncing"
     /\ IF ~number.ok
          THEN /\ reqs' = [reqs EXCEPT ![s] =
                    Finish(read1, Returned(Err(RpcErr("Internal", Unwrap(number.err)))))]
               /\ UNCHANGED tasks
        ELSE IF ~IsSome(Unwrap(number.value))
          THEN /\ reqs' = [reqs EXCEPT ![s] = Finish(read1, Panicked)]
               /\ UNCHANGED tasks
        ELSE LET hash == get_canonical_block_hash(Unwrap(Unwrap(number.value)))
             IN IF ~hash.ok
                  THEN /\ reqs' = [reqs EXCEPT ![s] =
                            Finish(read2, Returned(Err(RpcErr("Internal", Unwrap(hash.err)))))]
                       /\ UNCHANGED tasks
                ELSE IF ~IsSome(Unwrap(hash.value))
                  THEN /\ reqs' = [reqs EXCEPT ![s] =
                            Finish(read2, Returned(Err(RpcErr("Internal",
                                     "Missing latest canonical block"))))]
                       /\ UNCHANGED tasks
                ELSE /\ tasks' = [tasks EXCEPT ![req.serial] =
                          SpawnedTask(Unwrap(Unwrap(hash.value)),
                                      req.fork_choice_state.head_block_hash)]
                     /\ reqs' = [reqs EXCEPT ![s] =
                          Finish(read2, Returned(to_value(
                            ForkChoiceResponseFrom(syncing_status))))]
     /\ UNCHANGED << store, syncer, received, lastCommit >>

\* Faulty variant: the timestamp is compared with the head's before the fork
\* activation is checked.
PayloadAttributes_TimestampFirst(s) ==
  LET req == reqs[s]
      fcs == req.fork_choice_state
      response == ForkChoiceResponseFrom(valid_with_hash(fcs.head_block_hash))
      attrs == req.payload_attributes
      head_block == Unwrap(req.head_block)
  IN /\ req.pc = "payload"
     /\ reqs' = [reqs EXCEPT ![s] =
          IF ~attrs.ok
            THEN Finish(req, Returned(Err(RpcErr("InvalidPayloadAttributes",
                                                 Unwrap(attrs.err)))))
          ELSE IF ~IsSome(Unwrap(attrs.value))
            THEN Finish(req, Returned(to_value(response)))
          ELSE LET attributes == Unwrap(Unwrap(attrs.value))
                   chain_config == get_chain_config
                   args == BuildPayloadArgs(fcs, attributes)
               IN IF ~chain_config.ok
                    THEN Finish(req, Returned(Err(RpcErr("Internal",
                                                         Unwrap(chain_config.err)))))
                  ELSE IF attributes.timestamp <= head_block.timestamp
                    THEN Finish(req, Returned(Err(RpcErr("InvalidPayloadAttributes",
                                                         "invalid timestamp"))))
                  ELSE IF ~is_cancun_activated(Unwrap(chain_config.value),
                                               attributes.timestamp)
                    THEN Finish(req, Returned(Err(RpcErr("UnsuportedFork",
                           "forkChoiceV3 used to build pre-Cancun payload"))))
                  ELSE [req EXCEPT !.pc = "create_payload",
                                   !.args = Some(args),
                                   !.response = Some(set_id(response, PayloadId(args)))]]
     /\ UNCHANGED << store, syncer, tasks, received, lastCommit >>

\* Faulty variant: the provisional response names the parent of the applied head.
PayloadAttributes_ParentAsValidHash(s) ==
  LET req == reqs[s]
      fcs == req.fork_choice_state
      head_block == Unwrap(req.head_block)
      response == ForkChoiceResponseFrom(valid_with_hash(head_block.parent_hash))
      attrs == req.payload_attributes
  IN /\ req.pc = "payload"
     /\ reqs' = [reqs EXCEPT ![s] =
          IF ~attrs.ok
            THEN Finish(req, Returned(Err(RpcErr("InvalidPayloadAttributes",
                                                 Unwrap(attrs.err)))))
          ELSE IF ~IsSome(Unwrap(attrs.value))
            THEN Finish(req, Returned(to_value(response)))
          ELSE LET attributes == Unwrap(Unwrap(attrs.value))
                   chain_config == get_chain_config
                   args == BuildPayloadArgs(fcs, attributes)
               IN IF ~chain_config.ok
                    THEN Finish(req, Returned(Err(RpcErr("Internal",
                                                         Unwrap(chain_config.err)))))
                  ELSE IF ~is_cancun_activated(Unwrap(chain_config.value),
                                               attributes.timestamp)
                    THEN Finish(req, Returned(Err(RpcErr("UnsuportedFork",
                           "forkChoiceV3 used to build pre-Cancun payload"))))
                  ELSE IF attributes.timestamp <= head_block.timestamp
                    THEN Finish(req, Returned(Err(RpcErr("InvalidPayloadAttributes",
                                                         "invalid timestamp"))))
                  ELSE [req EXCEPT !.pc = "create_payload",
                                   !.args = Some(args),
                                   !.response = Some(set_id(response, PayloadId(args)))]]
     /\ UNCHANGED << store, syncer, tasks, received, lastCommit >>

\* handle, lines 114-145 and 157: the provisional VALID response and the
\* match on payload_attributes up to set_id.
PayloadAttributes(s) ==
  LET req == reqs[s]
      fcs == req.fork_choice_state
      response == ForkChoiceResponseFrom(valid_with_hash(fcs.head_block_hash))
      attrs == req.payload_attributes
      head_block == Unwrap(req.head_block)
  IN /\ req.pc = "payload"
     /\ reqs' = [reqs EXCEPT ![s] =
          IF ~attrs.ok
            THEN Finish(req, Returned(Err(RpcErr("InvalidPayloadAttributes",
                                                 Unwrap(attrs.err)))))
          ELSE IF ~IsSome(Unwrap(attrs.value))
            THEN Finish(req, Returned(to_value(response)))
          ELSE LET attributes == Unwrap(Unwrap(attrs.value))
                   chain_config == get_chain_config
                   args == BuildPayloadArgs(fcs, attributes)
               IN IF ~chain_config.ok
                    THEN Finish(req, Returned(Err(RpcErr("Internal",
                                                         Unwrap(chain_config.err)))))
                  ELSE IF ~is_cancun_activated(Unwrap(chain_config.value),
                                               attributes.timestamp)
                    THEN Finish(req, Returned(Err(RpcErr("UnsuportedFork",
                           "forkChoiceV3 used to build pre-Cancun payload"))))
                  ELSE IF attributes.timestamp <= head_block.timestamp
                    THEN Finish(req, Returned(Err(RpcErr("InvalidPayloadAttributes",
                                                         "invalid timestamp"))))
                  ELSE [req EXCEPT !.pc = "create_payload",
                                   !.args = Some(args),
                                   !.response = Some(set_id(response, PayloadId(args)))]]
     /\ UNCHANGED << store, syncer, tasks, received, lastCommit >>

\* Faulty variant: an EVM error of the build is swallowed and the provisional
\* response, payload id included, is returned.
CreatePayload_EvmErrorReturnsResponse(s) ==
  LET called == Called(reqs[s], "create_payload")
  IN /\ reqs[s].pc = "create_payload"
     /\ \E result \in {Ok(BuiltPayload(Unwrap(called.args))), Err("EvmError"),
                       Err("StoreError")} :
          reqs' = [reqs EXCEPT ![s] =
            LET req == [called EXCEPT !.created = Some(result)]
            IN
            IF result.ok
              THEN [req EXCEPT !.pc = "add_payload", !.payload = result.value]
            ELSE IF Unwrap(result.err) = "EvmError"
              THEN Finish(req, Returned(to_value(Unwrap(req.response))))
            ELSE Finish(req, Returned(Err(RpcErr("Internal", Unwrap(result.err)))))]
     /\ UNCHANGED << store, syncer, tasks, received, lastCommit >>

\* Faulty variant: after a failed build the fork choice is applied a second time
\* before the error is returned.
CreatePayload_RetriesForkChoice(s) ==
  LET called == Called(reqs[s], "create_payload")
  IN /\ reqs[s].pc = "create_payload"
     /\ \E result \in {Ok(BuiltPayload(Unwrap(called.args))), Err("EvmError"),
                       Err("StoreError")} :
          reqs' = [reqs EXCEPT ![s] =
            LET req == [called EXCEPT !.created = Some(result)]
            IN
            IF result.ok
              THEN [req EXCEPT !.pc = "add_payload", !.payload = result.value]
            ELSE IF Unwrap(result.err) = "EvmError"
              THEN Finish(Called(req, "apply_fork_choice"),
                          Returned(Err(RpcErr("Vm", "EvmError"))))
            ELSE Finish(Called(req, "apply_fork_choice"),
                        Returned(Err(RpcErr("Internal", Unwrap(result.err)))))]
     /\ UNCHANGED << store, syncer, tasks, received, lastCommit >>

\* Faulty variant: an EVM error of the build is reported as Internal, like any
\* other build error.
CreatePayload_EvmErrorAsInternal(s) ==
  LET called == Called(reqs[s], "create_payload")
  IN /\ reqs[s].pc = "create_payload"
     /\ \E result \in {Ok(BuiltPayload(Unwrap(called.args))), Err("EvmError"),
                       Err("StoreError")} :
          reqs' = [reqs EXCEPT ![s] =
            LET req == [called EXCEPT !.created = Some(result)]
            IN
            IF result.ok
              THEN [req EXCEPT !.pc = "add_payload", !.payload = result.value]
            ELSE Finish(req, Returned(Err(RpcErr("Internal", Unwrap(result.err)))))]
     /\ UNCHANGED << store, syncer, tasks, received, lastCommit >>

\* impl From<EvmError> for RpcErr, used by error.into() at line 148.
RpcErrFromEvmError(error) == RpcErr("Vm", error)

\* handle, lines 146-152: create_payload succeeds, fails with an EVM error,
\* or fails with another ChainError.
CreatePayloadResults(args) ==
  {Ok(BuiltPayload(args)), Err("EvmError"), Err("StoreError")}
CreatePayload(s) ==
  LET called == Called(reqs[s], "create_payload")
  IN /\ reqs[s].pc = "create_payload"
     /\ \E result \in CreatePayloadResults(Unwrap(called.args)) :
          reqs' = [reqs EXCEPT ![s] =
            LET req == [called EXCEPT !.created = Some(result)]
            IN
            IF result.ok
              THEN [req EXCEPT !.pc = "add_payload", !.payload = result.value]
            ELSE IF Unwrap(result.err) = "EvmError"
              THEN Finish(req, Returned(Err(RpcErrFromEvmError(Unwrap(result.err)))))
            ELSE Finish(req, Returned(Err(RpcErr("Internal", Unwrap(result.err)))))]
     /\ UNCHANGED << store, syncer, tasks, received, lastCommit >>

\* Faulty variant: a failed insert is ignored and the response, payload id
\* included, is returned.
AddPayload_RespondsOnFailure(s) ==
  LET req == Called(reqs[s], "add_payload")
      id == Unwrap(Unwrap(req.response).payload_id)
  IN /\ reqs[s].pc = "add_payload"
     /\ \/ /\ payloads' = payloads \cup { << id, Unwrap(req.payload) >> }
           /\ reqs' = [reqs EXCEPT ![s] =
                Finish(req, Returned(to_value(Unwrap(req.response))))]
        \/ /\ UNCHANGED payloads
           /\ reqs' = [reqs EXCEPT ![s] =
                Finish(req, Returned(to_value(Unwrap(req.response))))]
     /\ UNCHANGED << headers, canonical, latest, safe, finalized, syncer, tasks,
                     received, lastCommit >>

\* handle, lines 153 and 157: add_payload stores the payload under its id,
\* or fails with a StoreError; then the response is serialized.
AddPayload(s) ==
  LET req == Called(reqs[s], "add_payload")
      id == Unwrap(Unwrap(req.response).payload_id)
  IN /\ reqs[s].pc = "add_payload"
     /\ \/ /\ payloads' = payloads \cup { << id, Unwrap(req.payload) >> }
           /\ reqs' = [reqs EXCEPT ![s] =
                Finish(req, Returned(to_value(Unwrap(req.response))))]
        \/ /\ UNCHANGED payloads
           /\ reqs' = [reqs EXCEPT ![s] =
                Finish(req, Returned(Err(RpcErr("Internal", "StoreError"))))]
     /\ UNCHANGED << headers, canonical, latest, safe, finalized, syncer, tasks,
                     received, lastCommit >>

\* The result has gone to the caller; the request-scoped values are dropped.
Respond(s) ==
  /\ reqs[s].pc = "done"
  /\ reqs' = [reqs EXCEPT ![s] = IdleReq]
  /\ UNCHANGED << store, syncer, tasks, received, lastCommit >>

\* Faulty variant: the task takes the syncer without looking at the lock.
TaskTryLock_IgnoresLock(t) ==
  /\ tasks[t].state = "spawned"
  /\ syncer' = Some(t)
  /\ tasks' = [tasks EXCEPT ![t] =
       [@ EXCEPT !.state = "start_sync",
                 !.head_at_start = latest_canonical_block_hash.value]]
  /\ UNCHANGED << store, reqs, received, lastCommit >>

\* The detached task, lines 93-100: try_lock on the syncer.  With the lock
\* it calls start_sync(current_head, sync_head, storage); without it the
\* task ends at once.
TaskTryLock(t) ==
  /\ tasks[t].state = "spawned"
  /\ IF syncer = None
       THEN /\ syncer' = Some(t)
            /\ tasks' = [tasks EXCEPT ![t] =
                 [@ EXCEPT !.state = "start_sync",
                           !.head_at_start = latest_canonical_block_hash.value]]
       ELSE /\ UNCHANGED syncer
            /\ tasks' = [tasks EXCEPT ![t] = [NoTask EXCEPT !.state = "skipped"]]
  /\ UNCHANGED << store, reqs, received, lastCommit >>

\* start_sync returns and the guard is dropped.  The sync may have stored
\* the header of its target, when the target's parent is in the store.
TaskSyncDone(t) ==
  /\ tasks[t].state = "start_sync"
  /\ syncer' = None
  /\ tasks' = [tasks EXCEPT ![t] = [NoTask EXCEPT !.state = "finished"]]
  /\ \/ UNCHANGED headers
     \/ /\ tasks[t].sync_head \notin headers
        /\ Header(tasks[t].sync_head).parent_hash \in headers
        /\ headers' = headers \cup {tasks[t].sync_head}
  /\ UNCHANGED << canonical, latest, safe, finalized, payloads, reqs, received,
                  lastCommit >>

Next ==
  \/ \E s \in Slots : Receive(s)
  \/ \E s \in Slots : ApplyForkChoice(s)
  \/ \E s \in Slots : AlreadyCanonical(s)
  \/ \E s \in Slots : Syncing(s)
  \/ \E s \in Slots : PayloadAttributes(s)
  \/ \E s \in Slots : CreatePayload(s)
  \/ \E s \in Slots : AddPayload(s)
  \/ \E s \in Slots : Respond(s)
  \/ \E t \in Serials : TaskTryLock(t)
  \/ \E t \in Serials : TaskSyncDone(t)

Spec == Init /\ [][Next]_vars

\* The handler is an async fn polled by the runtime: once it reaches the
\* Syncing arm it runs to its return, since lines 82-109 contain no await.
\* The detached task and the synchronization it runs get no fairness: the
\* task may never be scheduled and start_sync may never return.
FairSpec == Spec /\ \A s \in Slots : WF_vars(Syncing(s))
----------------------------------------------------------------------------
\* Vocabulary of the properties.
HasAttributes(r) == r.payload_attributes.ok /\ IsSome(Unwrap(r.payload_attributes.value))
NullAttributes(r) == r.payload_attributes.ok /\ ~IsSome(Unwrap(r.payload_attributes.value))
Timestamp(r) == Unwrap(Unwrap(r.payload_attributes.value)).timestamp
RequestedHead(r) == r.fork_choice_state.head_block_hash
Steps(s) == reqs'[s] # reqs[s]
Ends(s) == reqs[s].pc # "done" /\ reqs'[s].pc = "done"
IsResponse(r) == r.ret.kind = "Ok"
Body(r) == Unwrap(r.ret.value)
IsError(r, kind) == r.ret.kind = "Err" /\ Unwrap(r.ret.err).kind = kind
ErrorMessage(r) == Unwrap(r.ret.err).msg
CountCalls(r, name) == Cardinality({i \in DOMAIN r.calls : r.calls[i] = name})
CanonicalHead == IF IsSome(latest) THEN canonical[Unwrap(latest)] ELSE None
Rejected(out) ==
  ~out.ok /\ Unwrap(out.err) \notin {"NewHeadAlreadyCanonical", "Syncing"}

\* C1: when apply_fork_choice answers NewHeadAlreadyCanonical, handle returns
\* a VALID response whose latestValidHash is the canonical head the store
\* holds at that moment, with no payloadId; the request spawns no sync task
\* and calls nothing but apply_fork_choice.
C1_AlreadyCanonicalIsValidAtCanonicalHead ==
  [][\A s \in Slots :
       (reqs[s].outcome = "AlreadyCanonical" /\ Ends(s)) =>
         LET r == reqs'[s]
         IN /\ IsResponse(r)
            /\ Body(r).payloadStatus.status = "VALID"
            /\ IsSome(CanonicalHead)
            /\ Body(r).payloadStatus.latestValidHash = CanonicalHead
            /\ Body(r).payloadId = None
            /\ tasks'[r.serial].state = "none"
            /\ r.calls = << "apply_fork_choice" >>]_vars

\* C1 witness: an AlreadyCanonical request answered VALID with a hash that
\* is not the head it asked for.
C1_Witness ==
  \E s \in Slots :
    /\ reqs[s].pc = "done"
    /\ reqs[s].outcome = "AlreadyCanonical"
    /\ IsResponse(reqs[s])
    /\ Body(reqs[s]).payloadStatus.latestValidHash # Some(RequestedHead(reqs[s]))

\* C2 (as amended): on a Syncing outcome handle returns SYNCING with no
\* latestValidHash and no payloadId, with or without attributes, when the
\* store holds the latest block number and its canonical hash; when the hash
\* is missing it returns an Internal error, and when the number is missing
\* the worker panics.
C2_SyncingRespondsWhenHeadStored ==
  [][\A s \in Slots :
       (reqs[s].pc = "syncing" /\ Steps(s)) =>
         LET r == reqs'[s]
         IN /\ r.pc = "done"
            /\ IF IsSome(CanonicalHead)
                 THEN /\ IsResponse(r)
                      /\ Body(r).payloadStatus.status = "SYNCING"
                      /\ Body(r).payloadStatus.latestValidHash = None
                      /\ Body(r).payloadId = None
               ELSE IF IsSome(latest)
                 THEN IsError(r, "Internal") /\ r.ret.value = None
               ELSE r.ret.kind = "Panic"]_vars

\* C2 witness: a Syncing request that carried attributes got SYNCING.
C2_Witness ==
  \E s \in Slots :
    /\ reqs[s].pc = "done"
    /\ reqs[s].outcome = "Syncing"
    /\ HasAttributes(reqs[s])
    /\ IsResponse(reqs[s])
    /\ Body(reqs[s]).payloadStatus.status = "SYNCING"

\* C2 as stated: every Syncing outcome is answered with a SYNCING response,
\* whatever the store holds.
C2_Original ==
  \A s \in Slots :
    (reqs[s].pc = "done" /\ reqs[s].outcome = "Syncing") =>
      /\ IsResponse(reqs[s])
      /\ Body(reqs[s]).payloadStatus.status = "SYNCING"
      /\ Body(reqs[s]).payloadStatus.latestValidHash = None
      /\ Body(reqs[s]).payloadId = None

\* C3: at most one start_sync runs at any time, and the task running it
\* holds the syncer lock.
C3_AtMostOneStartSync ==
  /\ Cardinality({t \in Serials : tasks[t].state = "start_sync"}) <= 1
  /\ \A t \in Serials : tasks[t].state = "start_sync" => syncer = Some(t)

\* C3 witness: one task is inside start_sync and another task, which ran
\* meanwhile, ended without calling it.
C3_Witness ==
  \E t1, t2 \in Serials :
    /\ tasks[t1].state = "start_sync"
    /\ tasks[t2].state = "skipped"

\* C4: when apply_fork_choice rejects the state for a reason other than
\* NewHeadAlreadyCanonical and Syncing, handle ends with
\* InvalidForkChoiceState carrying that reason and no response; no task is
\* spawned, nothing else is called and the store is untouched.
C4_InvalidIsAnError ==
  [][\A s \in Slots :
       LET out == ForkChoiceOutcome(reqs[s].fork_choice_state)
           r == reqs'[s]
       IN (reqs[s].pc = "handle" /\ Steps(s) /\ Rejected(out)) =>
            /\ r.pc = "done"
            /\ IsError(r, "InvalidForkChoiceState")
            /\ ErrorMessage(r) = ReasonString(Unwrap(out.err))
            /\ r.ret.value = None
            /\ r.calls = << "apply_fork_choice" >>
            /\ UNCHANGED << store, tasks, syncer >>]_vars

\* C4 witness: a request ended with InvalidForkChoiceState.
C4_Witness ==
  \E s \in Slots :
    /\ reqs[s].pc = "done"
    /\ reqs[s].outcome = "Invalid"
    /\ IsError(reqs[s], "InvalidForkChoiceState")
    /\ ErrorMessage(reqs[s]) = ReasonString("Disconnected")

\* C5: an applied fork choice with null attributes is answered VALID with
\* the requested head and no payloadId; the request never calls
\* create_payload and none of its steps changes the payload store.
C5_AppliedWithoutAttributes ==
  [][\A s \in Slots :
       LET r == reqs[s]
           r2 == reqs'[s]
       IN (Steps(s) /\ NullAttributes(r)) =>
            /\ (r.pc = "handle" /\ ForkChoiceOutcome(r.fork_choice_state).ok) =>
                 (r2.pc = "payload" /\ payloads' = payloads)
            /\ r.pc = "payload" =>
                 /\ r2.pc = "done"
                 /\ IsResponse(r2)
                 /\ Body(r2).payloadStatus.status = "VALID"
                 /\ Body(r2).payloadStatus.latestValidHash = Some(RequestedHead(r))
                 /\ Body(r2).payloadId = None
                 /\ r2.calls = << "apply_fork_choice" >>
                 /\ payloads' = payloads]_vars

\* C5 witness: an applied request without attributes got its response.
C5_Witness ==
  \E s \in Slots :
    /\ reqs[s].pc = "done"
    /\ reqs[s].outcome = "Applied"
    /\ NullAttributes(reqs[s])
    /\ IsResponse(reqs[s])
    /\ Body(reqs[s]).payloadStatus.latestValidHash = Some(RequestedHead(reqs[s]))
\* The request's payload was built and stored: the fork choice was applied,
\* the attributes decoded and passed both checks of the gate, create_payload
\* and add_payload were called in that order, and the store holds the payload
\* under the id derived from the request.
BuildSucceeded(r) ==
  /\ r.outcome = "Applied"
  /\ HasAttributes(r)
  /\ is_cancun_activated(ChainConfig, Timestamp(r))
  /\ Timestamp(r) > Unwrap(r.head_block).timestamp
  /\ r.calls = << "apply_fork_choice", "create_payload", "add_payload" >>
  /\ IsSome(r.payload)
  /\ << PayloadId(BuildPayloadArgs(r.fork_choice_state,
                                   Unwrap(Unwrap(r.payload_attributes.value)))),
        Unwrap(r.payload) >> \in payloads

\* C6: a returned response carries a payloadId exactly when the fork choice
\* was applied, the attributes were present, decoded and passed the gate, and
\* the build and the insert succeeded; a request that ends in an error
\* returns no response, even after set_id.
C6_PayloadIdIffBuilt ==
  \A s \in Slots :
    reqs[s].pc = "done" =>
      /\ IsResponse(reqs[s]) =>
           /\ IsSome(Body(reqs[s]).payloadId) <=> BuildSucceeded(reqs[s])
           /\ IsSome(Body(reqs[s]).payloadId) =>
                Body(reqs[s]).payloadId = Unwrap(reqs[s].response).payload_id
      /\ ~IsResponse(reqs[s]) => reqs[s].ret.value = None

\* C6 witness: a response with a payloadId was returned.
C6_Witness ==
  \E s \in Slots :
    /\ reqs[s].pc = "done"
    /\ IsResponse(reqs[s])
    /\ IsSome(Body(reqs[s]).payloadId)

\* C7: a request whose outcome is AlreadyCanonical, Syncing or Invalid never
\* reaches the payload gate or create_payload, and a request that spawned a
\* sync task never calls create_payload.
C7_NoBuildUnlessApplied ==
  \A s \in Slots :
    LET r == reqs[s]
    IN /\ r.outcome \in {"AlreadyCanonical", "Syncing", "Invalid"} =>
            /\ CountCalls(r, "create_payload") = 0
            /\ r.pc \notin {"payload", "create_payload", "add_payload"}
       /\ (r.serial \in Serials /\ tasks[r.serial].state # "none") =>
            /\ CountCalls(r, "create_payload") = 0
            /\ r.outcome = "Syncing"

\* C7 witness: a Syncing request whose attributes would pass the Cancun
\* check spawned its task and returned.
C7_Witness ==
  \E s \in Slots :
    /\ reqs[s].pc = "done"
    /\ reqs[s].outcome = "Syncing"
    /\ HasAttributes(reqs[s])
    /\ is_cancun_activated(ChainConfig, Timestamp(reqs[s]))
    /\ tasks[reqs[s].serial].state # "none"

\* C8: a request that reached handle has called apply_fork_choice exactly
\* once, as its first call, once it is past line 68; before that, and when
\* parse failed, it has called nothing.
C8_ForkChoiceAppliedOnceFirst ==
  \A s \in Slots :
    LET r == reqs[s]
    IN IF r.pc \in {"idle", "handle"} \/ IsError(r, "BadParams")
         THEN r.calls = << >>
         ELSE /\ Len(r.calls) >= 1
              /\ r.calls[1] = "apply_fork_choice"
              /\ CountCalls(r, "apply_fork_choice") = 1

\* C8 witness: a request that called create_payload has ended in an error.
C8_Witness ==
  \E s \in Slots :
    /\ reqs[s].pc = "done"
    /\ CountCalls(reqs[s], "create_payload") = 1
    /\ reqs[s].ret.kind = "Err"

\* C9 (as amended): with the fork choice applied and attributes whose
\* timestamp is not above the head block's, handle fails with
\* InvalidPayloadAttributes "invalid timestamp" when Cancun is active at the
\* timestamp, and with UnsuportedFork when it is not.  The failure comes
\* after the commit: apply_fork_choice makes the requested head canonical and
\* the request goes on; the failing step leaves the fork-choice state alone,
\* and the canonical head is the requested head unless another request's
\* fork choice was applied since.
C9_InvalidTimestampAfterCommit ==
  [][\A s \in Slots :
       LET r == reqs[s]
           r2 == reqs'[s]
           head == RequestedHead(r)
       IN (Steps(s) /\ HasAttributes(r)) =>
            /\ (/\ r.pc = "handle"
                /\ ForkChoiceOutcome(r.fork_choice_state).ok
                /\ Timestamp(r) <= Header(head).timestamp) =>
                 (r2.pc = "payload" /\ CanonicalHead' = Some(head))
            /\ (r.pc = "payload" /\ Timestamp(r) <= Unwrap(r.head_block).timestamp) =>
                 /\ r2.pc = "done"
                 /\ r2.ret.value = None
                 /\ IF is_cancun_activated(ChainConfig, Timestamp(r))
                      THEN /\ IsError(r2, "InvalidPayloadAttributes")
                           /\ ErrorMessage(r2) = "invalid timestamp"
                      ELSE IsError(r2, "UnsuportedFork")
                 /\ UNCHANGED << canonical, latest, safe, finalized >>
                 /\ lastCommit = Some(r.serial) => CanonicalHead = Some(head)]_vars

\* C9 witness: the request failed with "invalid timestamp" and its head is
\* the canonical head.
C9_Witness ==
  \E s \in Slots :
    /\ reqs[s].pc = "done"
    /\ reqs[s].outcome = "Applied"
    /\ HasAttributes(reqs[s])
    /\ Timestamp(reqs[s]) <= Unwrap(reqs[s].head_block).timestamp
    /\ IsError(reqs[s], "InvalidPayloadAttributes")
    /\ ErrorMessage(reqs[s]) = "invalid timestamp"
    /\ CanonicalHead = Some(RequestedHead(reqs[s]))

\* C9 as stated: every applied request whose attribute timestamp is not
\* above the head block's fails with InvalidPayloadAttributes, the requested
\* head being canonical (unless another fork choice was applied since).
C9_Original ==
  \A s \in Slots :
    (/\ reqs[s].pc = "done"
     /\ reqs[s].outcome = "Applied"
     /\ HasAttributes(reqs[s])
     /\ Timestamp(reqs[s]) <= Unwrap(reqs[s].head_block).timestamp) =>
      /\ IsError(reqs[s], "InvalidPayloadAttributes")
      /\ lastCommit = Some(reqs[s].serial) =>
           CanonicalHead = Some(RequestedHead(reqs[s]))

\* C10: with the fork choice applied and undecodable attributes, handle
\* fails with InvalidPayloadAttributes carrying the decode error, after the
\* commit: apply_fork_choice makes the requested head canonical and records
\* the named safe and finalized blocks before the request can fail, and no
\* failure in the payload-attribute step changes the fork-choice state.
C10_AttributeFailuresKeepForkChoice ==
  [][\A s \in Slots :
       LET r == reqs[s]
           r2 == reqs'[s]
           fcs == r.fork_choice_state
       IN Steps(s) =>
            /\ (r.pc = "handle" /\ ForkChoiceOutcome(fcs).ok) =>
                 /\ r2.pc = "payload"
                 /\ CanonicalHead' = Some(fcs.head_block_hash)
                 /\ Named(fcs.safe_block_hash) =>
                      safe' = Some(Header(fcs.safe_block_hash).number)
                 /\ Named(fcs.finalized_block_hash) =>
                      finalized' = Some(Header(fcs.finalized_block_hash).number)
            /\ (r.pc = "payload" /\ r2.ret.kind # "Ok") =>
                 UNCHANGED << canonical, latest, safe, finalized >>
            /\ (r.pc = "payload" /\ ~r.payload_attributes.ok) =>
                 /\ r2.pc = "done"
                 /\ IsError(r2, "InvalidPayloadAttributes")
                 /\ ErrorMessage(r2) = Unwrap(r.payload_attributes.err)
                 /\ r2.ret.value = None
                 /\ lastCommit = Some(r.serial) =>
                      CanonicalHead = Some(fcs.head_block_hash)]_vars

\* C10 witness: a request with undecodable attributes moved the canonical
\* head and the safe and finalized blocks, then failed.
C10_Witness ==
  \E s \in Slots :
    /\ reqs[s].pc = "done"
    /\ reqs[s].outcome = "Applied"
    /\ ~reqs[s].payload_attributes.ok
    /\ IsError(reqs[s], "InvalidPayloadAttributes")
    /\ lastCommit = Some(reqs[s].serial)
    /\ CanonicalHead = Some(RequestedHead(reqs[s]))
    /\ safe = Some(1)
    /\ finalized = Some(0)
\* A request the decoder must refuse: no params, not exactly two, or a
\* first parameter that is no fork-choice state.
Malformed(params) ==
  \/ ~IsSome(params)
  \/ Len(Unwrap(params)) # 2
  \/ Unwrap(params)[1].kind # "state"

\* C11: a malformed request ends in parse with BadParams, having called
\* nothing and changed neither store, syncer nor tasks; a request whose
\* second parameter alone is undecodable passes parse with the decoded
\* fork-choice state and the decode error as its payload_attributes; and a
\* request refused by parse does nothing afterwards.
C11_MalformedFailsInParse ==
  [][\A s \in Slots :
       LET r == reqs[s]
           r2 == reqs'[s]
       IN /\ (r.pc = "idle" /\ Steps(s)) =>
               /\ UNCHANGED << store, syncer, tasks, lastCommit >>
               /\ r2.calls = << >>
               /\ Malformed(r2.params) =>
                    /\ r2.pc = "done"
                    /\ IsError(r2, "BadParams")
                    /\ r2.ret.value = None
               /\ (~Malformed(r2.params)
                     /\ Unwrap(r2.params)[2].kind \notin {"null", "attributes"}) =>
                    /\ r2.pc = "handle"
                    /\ ~r2.payload_attributes.ok
                    /\ IsSome(r2.payload_attributes.err)
                    /\ RequestedHead(r2) = Unwrap(r2.params)[1].head
          /\ (IsError(r, "BadParams") /\ Steps(s)) =>
               /\ r2.pc = "idle"
               /\ UNCHANGED << store, syncer, tasks, lastCommit >>]_vars

\* C11 witness: two parameters, the first of which is no fork-choice state,
\* were refused with BadParams.
C11_Witness ==
  \E s \in Slots :
    /\ reqs[s].pc = "done"
    /\ IsSome(reqs[s].params)
    /\ Len(Unwrap(reqs[s].params)) = 2
    /\ Unwrap(reqs[s].params)[1].kind # "state"
    /\ IsError(reqs[s], "BadParams")
    /\ reqs[s].calls = << >>

\* C12: every finished request has exactly one result, a response value or
\* an RpcErr, never a panic and never both.  As stated this fails: the
\* unwraps at lines 79 and 84 abort handle when the store has no latest
\* block.
C12_Original ==
  \A s \in Slots :
    reqs[s].pc = "done" =>
      \/ reqs[s].ret.kind = "Ok" /\ IsSome(reqs[s].ret.value)
                                 /\ ~IsSome(reqs[s].ret.err)
      \/ reqs[s].ret.kind = "Err" /\ IsSome(reqs[s].ret.err)
                                  /\ ~IsSome(reqs[s].ret.value)

\* C13: on a Syncing outcome with no latest block number, or no canonical
\* hash for it, the request fails with Internal and spawns no task.  As
\* stated this fails: with no latest block number handle panics at line 84.
C13_Original ==
  [][\A s \in Slots :
       (reqs[s].pc = "syncing" /\ Steps(s) /\ ~IsSome(CanonicalHead)) =>
         /\ IsError(reqs'[s], "Internal")
         /\ UNCHANGED tasks]_vars

CanonicalHeadReads == << "get_latest_block_number", "get_canonical_block_hash" >>
IsSyncingResponse(r) ==
  /\ IsResponse(r)
  /\ Body(r).payloadStatus.status = "SYNCING"

C15_SyncingNeverWaits ==
  \A s \in Slots : (reqs[s].pc = "syncing") ~> (reqs[s].pc = "done")

\* C15 witness: a request has returned SYNCING while the syncer is held by
\* another request's synchronization and its own task has not yet run.
C15_Witness ==
  \E s \in Slots :
    LET r == reqs[s]
    IN /\ r.pc = "done"
       /\ r.outcome = "Syncing"
       /\ IsSyncingResponse(r)
       /\ tasks[r.serial].state = "spawned"
       /\ \E t \in Serials : t # r.serial /\ syncer = Some(t)
                                          /\ tasks[t].state = "start_sync"

Pending(t) == tasks[t].state \in {"spawned", "start_sync"}

\* C16 as stated: the starting point handed to start_sync is the canonical
\* head at the moment the synchronization starts.
C16_Original ==
  \A t \in Serials :
    tasks[t].state = "start_sync" =>
      tasks[t].head_at_start = Some(tasks[t].current_head)

\* C16: the task spawned by a Syncing request carries the canonical head the
\* handler read at lines 84-91 and the request's own head_block_hash, and
\* start_sync is called with exactly these two values whenever the task gets
\* the syncer, whatever other requests have committed in between.
C16_StartSyncFromHeadReadByHandler ==
  [][/\ \A s \in Slots :
          LET r == reqs[s]
          IN (r.pc = "syncing" /\ Steps(s) /\ IsResponse(reqs'[s])) =>
               /\ IsSome(CanonicalHead)
               /\ tasks'[r.serial].state = "spawned"
               /\ tasks'[r.serial].current_head = Unwrap(CanonicalHead)
               /\ tasks'[r.serial].sync_head = RequestedHead(r)
               /\ \A t \in Serials \ {r.serial} : tasks'[t] = tasks[t]
     /\ \A t \in Serials :
          (Pending(t) /\ tasks'[t].state \in {"spawned", "start_sync"}) =>
            /\ tasks'[t].current_head = tasks[t].current_head
            /\ tasks'[t].sync_head = tasks[t].sync_head]_vars

\* C16 witness: start_sync is running from the head its request read, which
\* is no longer the canonical head the store held when the task took the
\* syncer.
C16_Witness ==
  \E t \in Serials :
    /\ tasks[t].state = "start_sync"
    /\ IsSome(tasks[t].head_at_start)
    /\ tasks[t].head_at_start # Some(tasks[t].current_head)
    /\ tasks[t].sync_head \notin headers

\* C17: on an Applied outcome with decoded attributes the gate checks Cancun
\* activation first, then the timestamp against the head block's, then goes
\* on to the build: a pre-Cancun timestamp fails with UnsuportedFork even
\* when it is also not after the head's, without create_payload and with
\* the payload store unchanged.
C17_ForkCheckBeforeTimestamp ==
  [][\A s \in Slots :
       LET r == reqs[s]
           r2 == reqs'[s]
       IN (r.pc = "payload" /\ Steps(s) /\ HasAttributes(r)) =>
            /\ r.outcome = "Applied"
            /\ UNCHANGED store
            /\ IF ~is_cancun_activated(ChainConfig, Timestamp(r))
                 THEN /\ r2.pc = "done"
                      /\ IsError(r2, "UnsuportedFork")
                      /\ r2.calls = << "apply_fork_choice" >>
               ELSE IF Timestamp(r) <= Unwrap(r.head_block).timestamp
                 THEN /\ r2.pc = "done"
                      /\ IsError(r2, "InvalidPayloadAttributes")
                      /\ ErrorMessage(r2) = "invalid timestamp"
                      /\ r2.calls = << "apply_fork_choice" >>
               ELSE /\ r2.pc = "create_payload"
                    /\ r2.ret = NotReturned
                    /\ r2.args = Some(BuildPayloadArgs(r.fork_choice_state,
                                   Unwrap(Unwrap(r.payload_attributes.value))))]_vars

\* C17 witness: a pre-Cancun timestamp that is also not after the head
\* block's was refused with UnsuportedFork, nothing built or stored.
C17_Witness ==
  \E s \in Slots :
    LET r == reqs[s]
    IN /\ r.pc = "done"
       /\ r.outcome = "Applied"
       /\ HasAttributes(r)
       /\ ~is_cancun_activated(ChainConfig, Timestamp(r))
       /\ Timestamp(r) <= Unwrap(r.head_block).timestamp
       /\ IsError(r, "UnsuportedFork")
       /\ CountCalls(r, "create_payload") = 0
       /\ payloads = {}

BuildFailed(r) == IsSome(r.created) /\ ~Unwrap(r.created).ok
BuildError(r) == Unwrap(Unwrap(r.created).err)

\* C18: when create_payload fails handle returns an error and no response:
\* an EVM error under its own kind, which is not Internal, every other build
\* error as Internal; add_payload is not called for the request and the step
\* leaves the payload store as it was.
C18_BuildFailureIsAnError ==
  [][\A s \in Slots :
       LET r == reqs[s]
           r2 == reqs'[s]
       IN /\ (r.pc = "create_payload" /\ Steps(s) /\ BuildFailed(r2)) =>
               /\ r2.pc = "done"
               /\ r2.ret.kind = "Err"
               /\ r2.ret.value = None
               /\ IF BuildError(r2) = "EvmError"
                    THEN /\ IsError(r2, "Vm")
                         /\ ~IsError(r2, "Internal")
                    ELSE /\ IsError(r2, "Internal")
                         /\ ErrorMessage(r2) = BuildError(r2)
               /\ r2.calls = << "apply_fork_choice", "create_payload" >>
               /\ payloads' = payloads
          /\ (BuildFailed(r) /\ Steps(s)) =>
               /\ r2 = IdleReq
               /\ payloads' = payloads]_vars

\* C18 witness: a build that failed with an EVM error was answered with the
\* Vm error, and no payload was stored.
C18_Witness ==
  \E s \in Slots :
    LET r == reqs[s]
    IN /\ r.pc = "done"
       /\ BuildFailed(r)
       /\ BuildError(r) = "EvmError"
       /\ IsError(r, "Vm")
       /\ CountCalls(r, "add_payload") = 0
       /\ payloads = {}

\* What a later get-payload request finds under id.
StoredUnderIn(stored, id) == {e \in stored : e[1] = id}
StoredUnder(id) == StoredUnderIn(payloads, id)

\* C19: a returned response with a payloadId means the payload store holds
\* the payload built for the request under exactly that id, put there by the
\* step that returned; a failed insert ends the request with an Internal
\* error and no response; and the store never loses an entry afterwards.
C19_ReturnedIdIsStored ==
  [][/\ \A s \in Slots :
          LET r == reqs[s]
              r2 == reqs'[s]
          IN (r.pc = "add_payload" /\ Steps(s)) =>
               /\ r2.pc = "done"
               /\ r2.calls = << "apply_fork_choice", "create_payload", "add_payload" >>
               /\ IF IsResponse(r2)
                    THEN /\ Body(r2).payloadId = Some(PayloadId(Unwrap(r.args)))
                         /\ StoredUnderIn(payloads', PayloadId(Unwrap(r.args))) =
                              {<< PayloadId(Unwrap(r.args)), Unwrap(r.payload) >>}
                         /\ Unwrap(r.payload) = BuiltPayload(Unwrap(r.args))
                    ELSE /\ IsError(r2, "Internal")
                         /\ r2.ret.value = None
                         /\ payloads' = payloads
     /\ payloads \subseteq payloads'
     /\ \A s \in Slots :
          (reqs'[s].pc = "done" /\ IsResponse(reqs'[s])
             /\ IsSome(Body(reqs'[s]).payloadId)) =>
            StoredUnderIn(payloads', Unwrap(Body(reqs'[s]).payloadId)) # {}]_vars

\* C19 witness: a response names a payloadId and the store holds the payload
\* built on the requested head under it.
C19_Witness ==
  \E s \in Slots :
    LET r == reqs[s]
    IN /\ r.pc = "done"
       /\ IsResponse(r)
       /\ IsSome(Body(r).payloadId)
       /\ \E e \in StoredUnder(Unwrap(Body(r).payloadId)) :
            /\ e[2].parent_hash = RequestedHead(r)
            /\ e[2].timestamp = Timestamp(r)

\* The steps of handle before the payload gate.
BeforeGate == {"handle", "already_canonical", "syncing"}
HandleStep(s) == ApplyForkChoice(s) \/ AlreadyCanonical(s) \/ Syncing(s)
Progress(r) == << r.pc, r.outcome, r.ret >>

\* Everything such a step may leave in a request: where it goes on, the
\* outcome, and the result if it has returned.
PossibleRets ==
  {NotReturned, Panicked}
    \cup {Returned(to_value(ForkChoiceResponseFrom(valid_with_hash(h)))) : h \in Hashes}
    \cup {Returned(to_value(ForkChoiceResponseFrom(syncing_status)))}
    \cup {Returned(Err(RpcErr("InvalidForkChoiceState", ReasonString(x)))) :
            x \in {"InvalidHeadHash", "Unordered", "Disconnected"}}
    \cup {Returned(Err(RpcErr("Internal", "Missing latest canonical block")))}
    \cup {Returned(Err(RpcErr("InvalidPayloadAttributes", Unwrap(a.err)))) :
            a \in {DecodePayloadAttributes(JunkValue)}}
PossibleProgress ==
  {"already_canonical", "syncing", "payload", "done"}
    \X {"Applied", "AlreadyCanonical", "Syncing", "Invalid"}
    \X PossibleRets

\* Two requests at the same place before the gate with the same fork-choice
\* state, a's attributes undecodable and b's null.
Twins(a, b) ==
  /\ reqs[a].pc \in BeforeGate
  /\ reqs[b].pc = reqs[a].pc
  /\ reqs[b].outcome = reqs[a].outcome
  /\ reqs[b].fork_choice_state = reqs[a].fork_choice_state
  /\ ~reqs[a].payload_attributes.ok
  /\ NullAttributes(reqs[b])

\* C20: before the payload gate a request with undecodable attributes and
\* the same request with null attributes, taken in the same state, can do
\* exactly the same: the same outcome, the same arm, the same response or
\* error; and a request whose outcome is AlreadyCanonical, Syncing or Invalid
\* never ends in InvalidPayloadAttributes.
C20_DecodeFailureOnlyOnAppliedPath ==
  /\ [](\A a, b \in Slots :
          Twins(a, b) =>
            /\ \E v \in PossibleProgress :
                 ENABLED (HandleStep(a) /\ Progress(reqs'[a]) = v)
            /\ \A v \in PossibleProgress :
                 ENABLED (HandleStep(a) /\ Progress(reqs'[a]) = v)
                   <=> ENABLED (HandleStep(b) /\ Progress(reqs'[b]) = v))
  /\ [][\A s \in Slots :
          (reqs[s].pc \in BeforeGate /\ Steps(s)) =>
            /\ Progress(reqs'[s]) \in PossibleProgress
            /\ reqs'[s].outcome # "Applied" =>
                 ~IsError(reqs'[s], "InvalidPayloadAttributes")]_vars
  /\ [](\A s \in Slots :
          (reqs[s].pc = "done" /\ reqs[s].outcome \in {"AlreadyCanonical", "Syncing", "Invalid"}) =>
            ~IsError(reqs[s], "InvalidPayloadAttributes"))

\* C20 witness: two requests naming the same head, one with undecodable and
\* one with null attributes, both found the head already canonical and got
\* the same VALID response.
C20_Witness ==
  \E a, b \in Slots :
    /\ reqs[a].pc = "done" /\ reqs[b].pc = "done"
    /\ reqs[a].fork_choice_state = reqs[b].fork_choice_state
    /\ ~reqs[a].payload_attributes.ok
    /\ NullAttributes(reqs[b])
    /\ reqs[a].outcome = "AlreadyCanonical"
    /\ reqs[b].outcome = "AlreadyCanonical"
    /\ IsResponse(reqs[a])
    /\ reqs[a].ret = reqs[b].ret
====
